---- MODULE Spec2Model ----
(***************************************************************************)
(* The activity pipeline of activity-bus (TypeScript sources): process and *)
(* its steps audit / execute / finalize / deliver / terminate, the built-in *)
(* processors run by execute, and the in-memory storage they use.           *)
(*                                                                         *)
(* Strings that the code inspects (ids) are sequences of one-character      *)
(* strings, so that startsWith and concatenation are computed, not assumed. *)
(* JavaScript objects are records that carry their identity in the field    *)
(* ref: a mutation of an object is applied to every place that holds it.    *)
(*                                                                         *)
(* Spec is one caller of process and loadMemory; SpecAgain lets the caller  *)
(* hand an activity to process a second time; SpecTwo is two callers at     *)
(* once. SpecRules is the registry of rules (rule, chainRules, applyRules)  *)
(* and SpecMatch the matcher (match, matchObjects, matchLists) on its own.  *)
(***************************************************************************)
EXTENDS Integers, Sequences, FiniteSets, TLC

VARIABLES memory, clock, proc, rules, console, tmpl, value, answer, iter,
          schema, thrown

\* The registry of rules and what applyRules last logged; a template, a value
\* and the answer of match for them; a generator that chainRules returned;
\* the schema validate is given (with value) and what it threw.
ruleVars == <<rules, console, tmpl, value, answer, iter, schema, thrown>>

vars ==
    <<memory, clock, proc, rules, console, tmpl, value, answer, iter, schema,
      thrown>>

(***************************************************************************)
(* Bounds                                                                  *)
(***************************************************************************)
\* The longest the registry of rules grows: the builtin rules and those a
\* caller registers.
MaxRules == 7

\* The longest array among the templates and the values match is asked about.
MaxLen == 2

\* The number of process calls of one behaviour; the clock is read as the
\* number of calls begun so far.
MaxClock == 2

\* The callers of process. Init starts the first one; the second one is off.
Slots == {1, 2}

(***************************************************************************)
(* Values                                                                  *)
(***************************************************************************)
NoId == <<>>
NoTime == 0
NoRef == <<0, 0>>

ActorAId == <<"/", "a">>
ActorBId == <<"/", "a", "b">>
Note1Id == <<"/", "a", "/", "1">>
Note2Id == <<"/", "a", "/", "2">>
NoteFId == <<"/", "a", "b", "/", "1">>
CollAId == <<"/", "a">>

OutboxPrefix == <<"/", "o", "u", "t", "b", "o", "x", "/">>
Tokens == {<<"k">>}

\* An ASObject: the fields the processors read or write.
Node(id, type, content) ==
    [kind |-> "object", ref |-> NoRef, id |-> id, type |-> type,
     content |-> content, attributedTo |-> <<>>, formerType |-> <<>>,
     deleted |-> NoTime]

\* An ASNode that is a string (a bare id).
StringNode(id) == [Node(id, <<>>, "") EXCEPT !.kind = "string"]

\* JavaScript's undefined, where a node is expected.
Undefined == [Node(NoId, <<>>, "") EXCEPT !.kind = "undefined"]

ActorA == Node(ActorAId, <<"Person">>, "")
ActorB == Node(ActorBId, <<"Person">>, "")
ActorNoId == Node(NoId, <<"Person">>, "")

Includes(seq, x) == \E i \in 1..Len(seq) : seq[i] = x

StartsWith(s, p) == Len(p) <= Len(s) /\ SubSeq(s, 1, Len(p)) = p

\* obj.id as JavaScript reads it: a string has no property id.
IdOf(n) == IF n.kind = "object" THEN n.id ELSE NoId

chain(seq) == SelectSeq(seq, LAMBDA n : n.kind # "undefined")

gather(seq) == chain(seq)

uri(n) ==
    IF n.kind = "undefined" THEN NoId
    ELSE IF n.kind = "string" THEN n.id
    ELSE n.id

(***************************************************************************)
(* Errors and result entries                                               *)
(***************************************************************************)
Msg(text, actor, obj) == [text |-> text, actor |-> actor, obj |-> obj]

NoError == [cls |-> "none", message |-> Msg("", NoId, NoId)]

\* new Error(message)
Error(text) == [cls |-> "Error", message |-> Msg(text, NoId, NoId)]

\* new Error(`${actor.id} cannot write to ${obj.id}`)
CannotWrite(actorId, objId) ==
    [cls |-> "Error", message |-> Msg(" cannot write to ", actorId, objId)]

\* An entry of act.result: a string, a node {id}, or a ProcessingError.
StringEntry(text) == [kind |-> "string", text |-> text, summary |-> <<>>]

NodeEntry(text) == [kind |-> "node", text |-> text, summary |-> <<>>]

ProcessingError(summary) ==
    [kind |-> "ProcessingError", text |-> "", summary |-> summary]

expand(e) == IF e.kind = "string" THEN NodeEntry(e.text) ELSE e

gatherNodes(entries) == [i \in 1..Len(entries) |-> expand(entries[i])]

(***************************************************************************)
(* Storage                                                                 *)
(***************************************************************************)
MemGet(m, k) == IF k \in DOMAIN m THEN m[k] ELSE Undefined

MemSet(m, k, v) == [x \in (DOMAIN m) \cup {k} |-> IF x = k THEN v ELSE m[x]]

\* canWrite without the slash after the user id.
canWriteNoSlash(objectId, userId) == StartsWith(objectId, userId)

canWrite(objectId, userId) == StartsWith(objectId, userId \o <<"/">>)

dereference(m, n) ==
    IF n.kind = "undefined" THEN Undefined
    ELSE IF n.kind = "string" THEN MemGet(m, n.id)
    ELSE MemGet(m, n.id)

RECURSIVE SetAll(_, _, _)
SetAll(m, objects, i) ==
    IF i > Len(objects) THEN m
    ELSE SetAll(MemSet(m, objects[i].id, objects[i]), objects, i + 1)

\* storeObjects that sets the first object only.
storeObjectsFirstOnly(m, objects) ==
    IF \E i \in 1..Len(objects) : IdOf(objects[i]) = NoId
    THEN [error |-> Error("object must have an id"), memory |-> m]
    ELSE [error |-> NoError, memory |-> SetAll(m, SubSeq(objects, 1, 1), 1)]

\* storeObjects that sets the objects that come before the first one
\* without id.
storeObjectsAsItGoes(m, objects) ==
    LET bad == {i \in 1..Len(objects) : IdOf(objects[i]) = NoId}
    IN  IF bad # {}
        THEN LET first == CHOOSE i \in bad : \A j \in bad : i <= j
             IN  [error |-> Error("object must have an id"),
                  memory |-> SetAll(m, SubSeq(objects, 1, first - 1), 1)]
        ELSE [error |-> NoError, memory |-> SetAll(m, objects, 1)]

\* storeObjects: [error, memory]. Every id is checked before anything is set.
storeObjects(m, objects) ==
    IF \E i \in 1..Len(objects) : IdOf(objects[i]) = NoId
    THEN [error |-> Error("object must have an id"), memory |-> m]
    ELSE [error |-> NoError, memory |-> SetAll(m, objects, 1)]

\* storeObject: [error, memory].
storeObject(m, obj) ==
    IF IdOf(obj) = NoId
    THEN [error |-> Error("object must have an id"), memory |-> m]
    ELSE [error |-> NoError, memory |-> MemSet(m, obj.id, obj)]

(***************************************************************************)
(* Helpers of the built-in processors                                      *)
(***************************************************************************)
\* CheckActors that asks the first actor only.
CheckActorsFirstOnly(obj, actors, j) ==
    IF actors = <<>> THEN NoError
    ELSE IF IdOf(actors[1]) = NoId THEN Error("actor must have an id")
    ELSE IF ~canWrite(obj.id, actors[1].id)
         THEN CannotWrite(actors[1].id, obj.id)
    ELSE NoError

RECURSIVE CheckActors(_, _, _)
CheckActors(obj, actors, j) ==
    IF j > Len(actors) THEN NoError
    ELSE IF IdOf(actors[j]) = NoId THEN Error("actor must have an id")
    ELSE IF ~canWrite(obj.id, actors[j].id)
         THEN CannotWrite(actors[j].id, obj.id)
    ELSE CheckActors(obj, actors, j + 1)

RECURSIVE GatherLoop(_, _, _, _)
GatherLoop(objects, actors, i, results) ==
    IF i > Len(objects) THEN [error |-> NoError, results |-> results]
    ELSE IF IdOf(objects[i]) = NoId
         THEN [error |-> Error("object must have an id"), results |-> <<>>]
    ELSE LET e == CheckActors(objects[i], actors, 1)
         IN  IF e # NoError THEN [error |-> e, results |-> <<>>]
             ELSE GatherLoop(objects, actors, i + 1,
                             Append(results, objects[i]))

\* gatherWriteableObjects: [error, results]; the first failing object or
\* (object, actor) pair throws, before any object is returned.
gatherWriteableObjects(objects, actors) ==
    GatherLoop(chain(objects), chain(actors), 1, <<>>)

\* The part of create_objects that the sources leave out: its doc comment
\* says the object must have an id, the actor must have write access and the
\* object will be attributed to the actor.
ensureObjectsWithURIs(objects) ==
    \A i \in 1..Len(objects) : uri(objects[i]) # NoId

attributeObjects(objects, actors) ==
    LET g == gatherWriteableObjects(objects, actors)
    IN  IF g.error # NoError THEN g
        ELSE [error |-> NoError,
              results |-> [i \in 1..Len(objects) |->
                  [objects[i] EXCEPT !.attributedTo = gather(actors)]]]

(***************************************************************************)
(* Object identity: a mutated object is seen wherever it is held           *)
(***************************************************************************)
SubstNode(n, news) ==
    IF n.kind = "undefined" \/ ~(\E j \in 1..Len(news) : news[j].ref = n.ref)
    THEN n
    ELSE news[CHOOSE j \in 1..Len(news) : news[j].ref = n.ref]

SubstSeq(seq, news) == [i \in 1..Len(seq) |-> SubstNode(seq[i], news)]

SubstMemory(m, news) == [k \in DOMAIN m |-> SubstNode(m[k], news)]

SubstProc(p, news) ==
    [p EXCEPT !.act.object = SubstSeq(@, news),
              !.objects = SubstSeq(@, news),
              !.obj = SubstNode(@, news)]

(***************************************************************************)
(* The built-in processors, as functions of the memory and the activity:   *)
(* [error, memory, act, news], news being the objects mutated in place.    *)
(***************************************************************************)
Outcome(e, m, act, news) ==
    [error |-> e, memory |-> m, act |-> act, news |-> news]

create_objects(m, act) ==
    IF ~Includes(act.type, "Create") THEN Outcome(NoError, m, act, <<>>)
    ELSE LET objects == gather(act.object)
         IN  IF ~ensureObjectsWithURIs(objects)
             THEN Outcome(Error("invalid objects"), m, act, <<>>)
             ELSE LET a == attributeObjects(objects, act.actor)
                  IN  IF a.error # NoError
                      THEN Outcome(a.error, m, act, <<>>)
                      ELSE LET st == storeObjects(m, a.results)
                           IN  Outcome(st.error, st.memory, act, a.results)

\* The stubs: one entry of result for every object of the activity.
RECURSIVE AppendTimes(_, _, _)
AppendTimes(result, e, n) ==
    IF n = 0 THEN result ELSE AppendTimes(Append(result, e), e, n - 1)

Stub(act, type, name) ==
    IF ~Includes(act.type, type) THEN act
    ELSE [act EXCEPT !.result =
              AppendTimes(@, StringEntry(name), Len(chain(act.object)))]

update_objects(act) == Stub(act, "Update", "update_objects")

add_to_collection(act) == Stub(act, "Add", "add_to_collection")

remove_from_collection(act) == Stub(act, "Remove", "remove_from_collection")

move_between_collections(act) == Stub(act, "Move", "move_between_collections")

move_or_remove_from_canonical_collection(act) ==
    IF ~Includes(act.type, "Move") /\ ~Includes(act.type, "Remove") THEN act
    ELSE [act EXCEPT !.result =
              AppendTimes(@, StringEntry("move_or_remove_from_canonical_collection"),
                          Len(chain(act.object)))]

(***************************************************************************)
(* The steps of process                                                    *)
(***************************************************************************)
\* finalize that leaves the activity unstamped.
finalizeNoStamp(act, now) == act

finalize(act, now) == [act EXCEPT !.processed = now]

deliver(act) == act

terminate(act, error, now) ==
    LET withError ==
            IF error.cls = "ProcessingError"
            THEN [act EXCEPT !.result =
                      Append(gatherNodes(@), ProcessingError(<<error.message>>))]
            ELSE IF error.cls = "Error"
            THEN [act EXCEPT !.result =
                      Append(gatherNodes(@), ProcessingError(<<error.message>>))]
            ELSE act
    IN  [withError EXCEPT !.originalType = act.type,
                          !.type = <<"Tombstone">>,
                          !.deleted = now]

\* An execute that starts over when it has run the last processor.
AfterAgain(name) ==
    LET names == <<"create_objects", "delete_objects", "update_objects",
                   "add_to_collection", "remove_from_collection",
                   "move_between_collections",
                   "move_or_remove_from_canonical_collection">>
        k == CHOOSE i \in 1..Len(names) : names[i] = name
    IN  names[(k % Len(names)) + 1]

\* export const processors = [...]: the order execute runs them in.
processors ==
    <<"create_objects", "delete_objects", "update_objects",
      "add_to_collection", "remove_from_collection",
      "move_between_collections", "move_or_remove_from_canonical_collection">>

\* for (let fn of builtins) await fn(act): what runs once a processor has
\* returned, the next processor or, after the last, finalize.
After(name) ==
    LET k == CHOOSE i \in 1..Len(processors) : processors[i] = name
    IN  IF k < Len(processors) THEN processors[k + 1] ELSE "finalize"

\* A delete that takes no object for a Tombstone.
isTombstoneNever(obj) == FALSE

\* gather(obj.type).includes('Tombstone'): delete_objects skips such an object.
isTombstone(obj) == Includes(obj.type, "Tombstone")

\* A catch clause that rethrows whatever the mode.
CatchOutcomeAlwaysRaise(raise) == "raised"

\* What the catch clause of process does after terminate.
CatchOutcome(raise) == IF raise THEN "raised" ELSE "returned"

(***************************************************************************)
(* Rules                                                                   *)
(***************************************************************************)
\* The values match is given: undefined, a string, an array (items), or an
\* object, whose keys are in insertion order and whose values are the items
\* at the same places.
JUndefined == [kind |-> "undefined", str |-> "", items |-> <<>>, keys |-> <<>>]

JString(s) == [kind |-> "string", str |-> s, items |-> <<>>, keys |-> <<>>]

JList(items) == [kind |-> "list", str |-> "", items |-> items, keys |-> <<>>]

JObject(keys, vals) ==
    [kind |-> "object", str |-> "", items |-> vals, keys |-> keys]

HasKey(v, key) == v.kind = "object" /\ Includes(v.keys, key)

\* target[key]: undefined when the target has no such property.
Property(v, key) ==
    IF HasKey(v, key)
    THEN v.items[CHOOSE i \in 1..Len(v.keys) : v.keys[i] = key]
    ELSE JUndefined

\* chain(v): arrays are flattened and undefined is left out.
RECURSIVE chainValues(_), ChainAll(_, _)
chainValues(v) ==
    IF v.kind = "list" THEN ChainAll(v.items, 1)
    ELSE IF v.kind = "undefined" THEN <<>>
    ELSE <<v>>

ChainAll(items, i) ==
    IF i > Len(items) THEN <<>>
    ELSE chainValues(items[i]) \o ChainAll(items, i + 1)

\* ruleValue === activityValue, for a ruleValue that is no array and no object.
StrictEquals(a, b) ==
    \/ a.kind = "undefined" /\ b.kind = "undefined"
    \/ a.kind = "string" /\ b.kind = "string" /\ a.str = b.str

\* match and its helpers answer "true" or "false", or "TypeError" when the
\* code throws: a property was read from undefined.
RECURSIVE match(_, _), MatchKeys(_, _, _), MatchPairs(_, _, _, _)
MatchKeys(ruleTarget, activityTarget, i) ==
    IF i > Len(ruleTarget.keys) THEN "true"
    ELSE IF activityTarget.kind = "undefined" THEN "TypeError"
    ELSE LET m == match(ruleTarget.items[i],
                        Property(activityTarget, ruleTarget.keys[i]))
         IN  IF m = "true" THEN MatchKeys(ruleTarget, activityTarget, i + 1)
             ELSE m

MatchPairs(ruleItems, activityItems, i, j) ==
    IF i > Len(ruleItems) THEN "false"
    ELSE IF j > Len(activityItems) THEN MatchPairs(ruleItems, activityItems, i + 1, 1)
    ELSE LET m == match(ruleItems[i], activityItems[j])
         IN  IF m = "false" THEN MatchPairs(ruleItems, activityItems, i, j + 1)
             ELSE m

matchObjects(ruleTarget, activityTarget) == MatchKeys(ruleTarget, activityTarget, 1)

matchLists(ruleValue, activityValue) ==
    MatchPairs(chainValues(ruleValue), chainValues(activityValue), 1, 1)

match(ruleValue, activityValue) ==
    IF ruleValue.kind = "list" THEN matchLists(ruleValue, activityValue)
    ELSE IF ruleValue.kind = "object" THEN matchObjects(ruleValue, activityValue)
    ELSE IF StrictEquals(ruleValue, activityValue) THEN "true" ELSE "false"

\* A rule as rule() is given it: id and priority are fields a caller may add
\* (ASObject is open), target may be absent, content is the handler.
NoPriority == 0

RuleConfig(id, summary, priority, hasTarget, target) ==
    [id |-> id, summary |-> summary, priority |-> priority,
     hasTarget |-> hasTarget, target |-> target, content |-> <<"handler">>]

\* rule(r): the handler is replaced by '' and the rule is pushed.
rule(rs, r) ==
    Append(rs, [r EXCEPT !.content = [i \in 1..Len(r.content) |-> ""]])

\* rule.target.some(target => match(target, activity))
RECURSIVE some(_, _, _)
some(targets, activity, i) ==
    IF i > Len(targets) THEN "false"
    ELSE LET m == match(targets[i], activity)
         IN  IF m = "false" THEN some(targets, activity, i + 1) ELSE m

\* A chainRules that passes over the rules without a target.
yieldsWithTargetOnly(r, activity) ==
    IF r.hasTarget THEN some(r.target, activity, 1) ELSE "false"

\* Whether chainRules yields the rule for the activity.
yields(r, activity) ==
    IF r.hasTarget THEN some(r.target, activity, 1) ELSE "true"

\* chainRules(activity): the rules it yields, in the order of the registry,
\* up to a TypeError if match throws one; seen is how many rules it went
\* through.
RECURSIVE ChainRulesFrom(_, _, _, _)
ChainRulesFrom(rs, activity, i, out) ==
    IF i > Len(rs) THEN [rules |-> out, error |-> "none", seen |-> Len(rs)]
    ELSE LET y == yields(rs[i], activity)
         IN  IF y = "TypeError" THEN [rules |-> out, error |-> y, seen |-> i]
             ELSE ChainRulesFrom(rs, activity, i + 1,
                                 IF y = "true" THEN Append(out, rs[i]) ELSE out)

chainRules(rs, activity) == ChainRulesFrom(rs, activity, 1, <<>>)

\* applyRules(activity): what it writes to the console, one summary a rule.
applyRules(rs, activity) ==
    LET c == chainRules(rs, activity)
    IN  [activity |-> activity,
         lines |-> [i \in 1..Len(c.rules) |-> c.rules[i].summary],
         error |-> c.error,
         seen |-> c.seen]

\* A generator of chainRules: the activity it was called with, the place in
\* rules its loop has come to (at), the places of the rules it has yielded,
\* whether it has returned or thrown (state), and how long rules was when it
\* was called (size).
Iter(activity, at, yielded, state, size) ==
    [activity |-> activity, at |-> at, yielded |-> yielded, state |-> state,
     size |-> size]

NoIter == Iter(JUndefined, 0, <<>>, "none", 0)

\* next() on the generator: the loop over rules goes on from where it is,
\* over rules as it is now, to the next rule it yields, or to its end.
RECURSIVE IterNext(_, _)
IterNext(rs, it) ==
    IF it.at > Len(rs) THEN [it EXCEPT !.state = "returned"]
    ELSE LET y == yields(rs[it.at], it.activity)
         IN  IF y = "TypeError" THEN [it EXCEPT !.state = "thrown"]
             ELSE IF y = "true"
             THEN [it EXCEPT !.yielded = Append(@, it.at), !.at = @ + 1]
             ELSE IterNext(rs, [it EXCEPT !.at = @ + 1])

NoConsole ==
    [activity |-> JUndefined, lines |-> <<>>, error |-> "none", seen |-> 0]

\* The templates of the builtin rules.
Typed(type) == JObject(<<"type">>, <<JList(<<JString(type)>>)>>)

TypedOf(type, objectType) ==
    JObject(<<"type", "object">>,
            <<JList(<<JString(type)>>), JList(<<Typed(objectType)>>)>>)

\* The registry once the module is loaded: the four builtin rules.
BuiltinRules ==
    LET r1 == RuleConfig("", "Log when anything is created", NoPriority, TRUE,
                         <<Typed("Create")>>)
        r2 == RuleConfig("", "Log when a note is created", NoPriority, TRUE,
                         <<TypedOf("Create", "Note")>>)
        r3 == RuleConfig("", "Log when a pigeon is created", NoPriority, TRUE,
                         <<TypedOf("Create", "Pigeon")>>)
        r4 == RuleConfig("", "Log when a note is moved", NoPriority, TRUE,
                         <<TypedOf("Move", "Note")>>)
    IN  rule(rule(rule(rule(<<>>, r1), r2), r3), r4)

(***************************************************************************)
(* Validation                                                              *)
(***************************************************************************)
JNull == [kind |-> "null", str |-> "", items |-> <<>>, keys |-> <<>>]

\* typeof v
typeof(v) ==
    IF v.kind \in {"object", "list", "null"} THEN "object" ELSE v.kind

\* if (v): undefined, null and '' are falsy, an array or an object is not.
Truthy(v) ==
    /\ v.kind \notin {"undefined", "null"}
    /\ v.kind = "string" => v.str # ""

\* String(v), as a template literal makes it: an array is its items joined
\* by commas, with nothing for undefined and null.
RECURSIVE String(_), JoinItems(_, _)
String(v) ==
    IF v.kind = "string" THEN v.str
    ELSE IF v.kind = "list" THEN JoinItems(v.items, 1)
    ELSE IF v.kind = "object" THEN "[object Object]"
    ELSE v.kind

JoinItems(items, i) ==
    IF i > Len(items) THEN ""
    ELSE LET head == IF items[i].kind \in {"undefined", "null"} THEN ""
                     ELSE String(items[i])
         IN  IF i = Len(items) THEN head
             ELSE head \o "," \o JoinItems(items, i + 1)

\* b.includes(item), for the values that are compared by value.
includes(b, item) ==
    \E i \in 1..Len(b) :
        \/ StrictEquals(b[i], item)
        \/ b[i].kind = "null" /\ item.kind = "null"

\* intersection(a, b): the items of gather(a) that gather(b) includes.
intersection(a, b) ==
    SelectSeq(chainValues(a), LAMBDA item : includes(chainValues(b), item))

isEmpty(v) ==
    \/ v.kind \in {"undefined", "null"}
    \/ v.kind = "string" /\ v.str = ""
    \/ v.kind = "list" /\ v.items = <<>>

ValidationItem(path, v, message) ==
    [path |-> path, value |-> v, message |-> message]

\* What a call threw: nothing, an Error or a ValidationError with its items.
NotCalled == [cls |-> "not called", message |-> "", items |-> <<>>]

NotThrown == [cls |-> "none", message |-> "", items |-> <<>>]

ErrorOf(message) == [cls |-> "Error", message |-> message, items |-> <<>>]

ValidationError(items) ==
    [cls |-> "ValidationError", message |-> "validation errors", items |-> items]

\* validateSingle(path, value, schema): what it throws. Reading the type of
\* null is a TypeError.
validateSingle(path, v, sch) ==
    IF typeof(v) # "object" THEN ErrorOf("must be an object")
    ELSE IF sch.kind \in {"undefined", "null"}
         THEN ErrorOf("Cannot read properties of " \o sch.kind)
    ELSE IF Truthy(Property(sch, "type"))
         THEN IF v.kind = "null" THEN ErrorOf("Cannot read properties of null")
              ELSE IF intersection(Property(sch, "type"), Property(v, "type")) = <<>>
                   THEN ErrorOf("must be type - " \o String(Property(sch, "type")))
              ELSE NotThrown
    ELSE NotThrown

\* The catch clause of validate: the items of a ValidationError, or one item
\* for any other error.
Caught(e, path, v) ==
    IF e.cls = "none" THEN <<>>
    ELSE IF e.cls = "ValidationError" THEN e.items
    ELSE <<ValidationItem(path, v, e.message)>>

\* The loop of validate over an array, from its item i on.
RECURSIVE ValidateEach(_, _, _)
ValidateEach(items, sch, i) ==
    IF i > Len(items) THEN <<>>
    ELSE Caught(validateSingle(ToString(i - 1), items[i], sch),
                ToString(i - 1), items[i])
             \o ValidateEach(items, sch, i + 1)

\* validate(value, schema): what it throws. What is not an array is
\* validated against itself.
validate(v, sch) ==
    IF isEmpty(v)
    THEN ValidationError(<<ValidationItem("", v, "must be defined")>>)
    ELSE LET errors == IF v.kind = "list" THEN ValidateEach(v.items, sch, 1)
                       ELSE Caught(validateSingle("", v, v), "", v)
         IN  IF errors # <<>> THEN ValidationError(errors) ELSE NotThrown

\* The activity as match reads it: an object with the properties that are set.
RECURSIVE Join(_)
Join(chars) == IF chars = <<>> THEN "" ELSE chars[1] \o Join(Tail(chars))

Strings(seq) == JList([i \in 1..Len(seq) |-> JString(seq[i])])

JObjectOf(pairs) ==
    LET set == SelectSeq(pairs, LAMBDA q : q.set)
    IN  JObject([i \in 1..Len(set) |-> set[i].key],
                [i \in 1..Len(set) |-> set[i].val])

NodeValue(n) ==
    IF n.kind = "string" THEN JString(Join(n.id))
    ELSE JObjectOf(<<[key |-> "id", set |-> n.id # NoId, val |-> JString(Join(n.id))],
                     [key |-> "type", set |-> n.type # <<>>, val |-> Strings(n.type)],
                     [key |-> "content", set |-> n.content # "",
                      val |-> JList(<<JString(n.content)>>)]>>)

NodeValues(seq) == JList([i \in 1..Len(seq) |-> NodeValue(seq[i])])

ActivityValue(act) ==
    JObjectOf(<<[key |-> "id", set |-> act.id # NoId, val |-> JString(Join(act.id))],
                [key |-> "type", set |-> TRUE, val |-> Strings(act.type)],
                [key |-> "actor", set |-> TRUE, val |-> NodeValues(act.actor)],
                [key |-> "object", set |-> TRUE, val |-> NodeValues(act.object)],
                [key |-> "origin", set |-> act.origin # <<>>,
                 val |-> NodeValues(act.origin)]>>)

(***************************************************************************)
(* State                                                                   *)
(***************************************************************************)
Activity(type, actor, object, origin, result) ==
    [id |-> NoId, type |-> type, actor |-> actor, object |-> object,
     origin |-> origin, result |-> result, processed |-> NoTime,
     deleted |-> NoTime, originalType |-> <<>>, formerType |-> <<>>]

NoActivity == Activity(<<>>, <<>>, <<>>, <<>>, <<>>)

\* A call of process: where it stands (pc), its argument (act, raise), the
\* caught error, how it left (outcome), the locals of delete_objects
\* (objects, obj, i), and the activity and the memory as they were when the
\* call began (act0, memory0), the processors execute has called so far
\* (started) and how many of them have returned (ended).
ProcAt(pc) ==
    [pc |-> pc, act |-> NoActivity, raise |-> FALSE, error |-> NoError,
     outcome |-> "none", objects |-> <<>>, obj |-> Undefined, i |-> 0,
     act0 |-> NoActivity, memory0 |-> <<>>, started |-> <<>>, ended |-> 0]

Idle == ProcAt("idle")

\* The objects a test or a caller names.
Note(id, content, k) == [Node(id, <<"Note">>, content) EXCEPT !.ref = <<0, k>>]

Types ==
    {<<"Create">>, <<"Delete">>, <<"Update">>, <<"Add">>, <<"Remove">>,
     <<"Move">>}

ActorLists == {<<ActorA>>, <<ActorB>>, <<>>, <<ActorNoId>>}

ObjectLists ==
    {<<Note(Note1Id, "hi", 1)>>,
     <<Note(Note1Id, "yo", 1)>>,
     <<Note(NoteFId, "hi", 1)>>,
     <<Note(Note1Id, "hi", 1), Note(Note2Id, "hi", 2)>>,
     <<Note(Note1Id, "hi", 1), Note(NoteFId, "hi", 2)>>,
     <<Node(NoId, <<"Note">>, "hi")>>}

Origins(type) ==
    IF type \in {<<"Remove">>, <<"Move">>}
    THEN {<<>>, <<StringNode(CollAId)>>}
    ELSE {<<>>}

Results == {<<>>, <<StringEntry("x")>>}

\* The stores that loadMemory is given.
Stored(n, actors) == [n EXCEPT !.attributedTo = actors]

Tombstoned(n, former, at) ==
    [n EXCEPT !.formerType = former, !.type = <<"Tombstone">>, !.deleted = at]

MemoryItems ==
    {<<>>,
     (Note1Id :> Stored(Note(Note1Id, "hi", 1), <<ActorA>>)),
     (Note1Id :> Stored(Note(Note1Id, "hi", 1), <<ActorA>>))
        @@ (NoteFId :> Stored(Note(NoteFId, "hi", 2), <<ActorA>>))}

\* The module is loaded, applyRules has not been called, match is not asked.
RulesLoaded ==
    /\ rules = BuiltinRules
    /\ console = NoConsole
    /\ tmpl = JUndefined
    /\ value = JUndefined
    /\ answer = "none"
    /\ iter = NoIter
    /\ schema = JUndefined
    /\ thrown = NotCalled

Init ==
    /\ memory = <<>>
    /\ clock = 0
    /\ proc = [s \in Slots |-> IF s = 1 THEN Idle ELSE ProcAt("off")]
    /\ RulesLoaded

(***************************************************************************)
(* Actions                                                                 *)
(***************************************************************************)
\* loadMemory(items), between calls of process.
LoadMemory ==
    /\ \A s \in Slots : proc[s].pc \in {"idle", "off"}
    /\ \E items \in MemoryItems : memory' = items
    /\ UNCHANGED <<clock, proc>>
    /\ UNCHANGED ruleVars

\* process(act, raise) is called: act.id is overwritten.
Begin(s) ==
    /\ proc[s].pc = "idle"
    /\ clock < MaxClock
    /\ clock' = clock + 1
    /\ \E type \in Types, actor \in ActorLists, object \in ObjectLists,
          result \in Results, raise \in BOOLEAN, token \in Tokens :
       \E origin \in Origins(type) :
          LET fresh == [i \in 1..Len(object) |->
                            [object[i] EXCEPT !.ref = <<clock', i>>]]
              given == Activity(type, actor, fresh, origin, result)
          IN  proc' = [proc EXCEPT ![s] =
                  [Idle EXCEPT !.pc = "audit",
                               !.act = [given EXCEPT !.id = OutboxPrefix \o token],
                               !.raise = raise,
                               !.act0 = given,
                               !.memory0 = memory]]
    /\ UNCHANGED memory
    /\ UNCHANGED ruleVars

Goto(s, pc) == proc' = [proc EXCEPT ![s].pc = pc]

Throw(s, e) == proc' = [proc EXCEPT ![s].pc = "terminate", ![s].error = e]

\* execute calls the processor: await fn(act).
Started(p, name) == [p EXCEPT !.started = Append(@, name)]

\* The processor has returned and execute goes on.
Returned(p, name) == [p EXCEPT !.ended = @ + 1, !.pc = After(name)]

Audit(s) ==
    /\ proc[s].pc = "audit"
    /\ Goto(s, processors[1])
    /\ UNCHANGED <<memory, clock>>
    /\ UNCHANGED ruleVars

CreateObjects(s) ==
    /\ proc[s].pc = "create_objects"
    /\ LET r == create_objects(memory, proc[s].act)
       IN  /\ memory' = r.memory
           /\ proc' = [t \in Slots |->
                 LET p == SubstProc(proc[t], r.news)
                     q == Started(p, "create_objects")
                 IN  IF t # s THEN p
                     ELSE IF r.error # NoError
                          THEN [q EXCEPT !.pc = "terminate", !.error = r.error]
                          ELSE Returned(q, "create_objects")]
    /\ UNCHANGED clock
    /\ UNCHANGED ruleVars

\* delete_objects up to its loop: the writeable objects, dereferenced.
DeleteObjects(s) ==
    /\ proc[s].pc = "delete_objects"
    /\ LET q == Started(proc[s], "delete_objects")
       IN  IF ~Includes(proc[s].act.type, "Delete")
           THEN proc' = [proc EXCEPT ![s] = Returned(q, "delete_objects")]
           ELSE LET g == gatherWriteableObjects(proc[s].act.object,
                                                proc[s].act.actor)
                IN  IF g.error # NoError
                    THEN proc' = [proc EXCEPT ![s] =
                             [q EXCEPT !.pc = "terminate", !.error = g.error]]
                    ELSE proc' = [proc EXCEPT ![s] =
                             [q EXCEPT
                                 !.objects = [i \in 1..Len(g.results) |->
                                                 dereference(memory, g.results[i])],
                                 !.i = 1,
                                 !.pc = "delete_dereference"]]
    /\ UNCHANGED <<memory, clock>>
    /\ UNCHANGED ruleVars

\* The loop's head: obj = await dereference(obj).
DeleteDereference(s) ==
    /\ proc[s].pc = "delete_dereference"
    /\ IF proc[s].i > Len(proc[s].objects)
       THEN proc' = [proc EXCEPT ![s] = Returned(@, "delete_objects")]
       ELSE proc' = [proc EXCEPT
                ![s].obj = dereference(memory, proc[s].objects[proc[s].i]),
                ![s].pc = "delete_tombstone"]
    /\ UNCHANGED <<memory, clock>>
    /\ UNCHANGED ruleVars

\* The loop's body: the object is made a Tombstone in place and stored.
DeleteTombstone(s) ==
    /\ proc[s].pc = "delete_tombstone"
    /\ LET obj == proc[s].obj
       IN  IF obj.kind = "undefined"
           THEN /\ Throw(s, Error("not found"))
                /\ UNCHANGED memory
           ELSE IF isTombstone(obj)
           THEN /\ proc' = [proc EXCEPT ![s].i = @ + 1,
                                        ![s].pc = "delete_dereference"]
                /\ UNCHANGED memory
           ELSE LET new == [obj EXCEPT !.formerType = obj.type,
                                       !.type = <<"Tombstone">>,
                                       !.deleted = clock]
                    st == storeObject(SubstMemory(memory, <<new>>), new)
                IN  /\ memory' = st.memory
                    /\ proc' = [t \in Slots |->
                          LET p == SubstProc(proc[t], <<new>>)
                          IN  IF t # s THEN p
                              ELSE IF st.error # NoError
                                   THEN [p EXCEPT !.pc = "terminate",
                                                  !.error = st.error]
                                   ELSE [p EXCEPT !.i = @ + 1,
                                                  !.pc = "delete_dereference"]]
    /\ UNCHANGED clock
    /\ UNCHANGED ruleVars

\* A processor that neither waits nor throws: called, run and returned.
StubStep(s, name, act) ==
    /\ proc[s].pc = name
    /\ proc' = [proc EXCEPT ![s] =
           Returned(Started([@ EXCEPT !.act = act], name), name)]
    /\ UNCHANGED <<memory, clock>>
    /\ UNCHANGED ruleVars

UpdateObjects(s) ==
    StubStep(s, "update_objects", update_objects(proc[s].act))

AddToCollection(s) ==
    StubStep(s, "add_to_collection", add_to_collection(proc[s].act))

RemoveFromCollection(s) ==
    StubStep(s, "remove_from_collection", remove_from_collection(proc[s].act))

MoveBetweenCollections(s) ==
    StubStep(s, "move_between_collections",
             move_between_collections(proc[s].act))

MoveOrRemoveFromCanonicalCollection(s) ==
    StubStep(s, "move_or_remove_from_canonical_collection",
             move_or_remove_from_canonical_collection(proc[s].act))

Finalize(s) ==
    /\ proc[s].pc = "finalize"
    /\ proc' = [proc EXCEPT ![s].act = finalize(@, clock), ![s].pc = "deliver"]
    /\ UNCHANGED <<memory, clock>>
    /\ UNCHANGED ruleVars

Deliver(s) ==
    /\ proc[s].pc = "deliver"
    /\ proc' = [proc EXCEPT ![s].act = deliver(@), ![s].pc = "done",
                            ![s].outcome = "returned"]
    /\ UNCHANGED <<memory, clock>>
    /\ UNCHANGED ruleVars

\* A catch clause that also puts the store back as the call found it.
TerminateRollback(s) ==
    /\ proc[s].pc = "terminate"
    /\ proc' = [proc EXCEPT
           ![s].act = terminate(@, proc[s].error, clock),
           ![s].pc = "done",
           ![s].outcome = CatchOutcome(proc[s].raise)]
    /\ memory' = proc[s].memory0
    /\ UNCHANGED clock
    /\ UNCHANGED ruleVars

\* catch (e) { await terminate(act, e); if (raise) throw e; }
Terminate(s) ==
    /\ proc[s].pc = "terminate"
    /\ proc' = [proc EXCEPT
           ![s].act = terminate(@, proc[s].error, clock),
           ![s].pc = "done",
           ![s].outcome = CatchOutcome(proc[s].raise)]
    /\ UNCHANGED <<memory, clock>>
    /\ UNCHANGED ruleVars

\* The caller is done with the activity it got back.
Finish(s) ==
    /\ proc[s].pc = "done"
    /\ proc' = [proc EXCEPT ![s] = Idle]
    /\ UNCHANGED <<memory, clock>>
    /\ UNCHANGED ruleVars

Next ==
    \/ LoadMemory
    \/ \E s \in Slots : Begin(s)
    \/ \E s \in Slots : Audit(s)
    \/ \E s \in Slots : CreateObjects(s)
    \/ \E s \in Slots : DeleteObjects(s)
    \/ \E s \in Slots : DeleteDereference(s)
    \/ \E s \in Slots : DeleteTombstone(s)
    \/ \E s \in Slots : UpdateObjects(s)
    \/ \E s \in Slots : AddToCollection(s)
    \/ \E s \in Slots : RemoveFromCollection(s)
    \/ \E s \in Slots : MoveBetweenCollections(s)
    \/ \E s \in Slots : MoveOrRemoveFromCanonicalCollection(s)
    \/ \E s \in Slots : Finalize(s)
    \/ \E s \in Slots : Deliver(s)
    \/ \E s \in Slots : Terminate(s)
    \/ \E s \in Slots : Finish(s)

Spec == Init /\ [][Next]_vars

\* What Math.random gives a later call: the same token or another one.
TokensAgain == Tokens \cup {<<"m">>}

\* process(act, raise) is called again on the activity an earlier call of
\* process was given: the same object, with whatever that call left on it.
ProcessAgain(s) ==
    /\ proc[s].pc = "done"
    /\ clock < MaxClock
    /\ clock' = clock + 1
    /\ \E raise \in BOOLEAN, token \in TokensAgain :
          proc' = [proc EXCEPT ![s] =
              [Idle EXCEPT !.pc = "audit",
                           !.act = [proc[s].act EXCEPT !.id = OutboxPrefix \o token],
                           !.raise = raise,
                           !.act0 = proc[s].act,
                           !.memory0 = memory]]
    /\ UNCHANGED memory
    /\ UNCHANGED ruleVars

NextAgain ==
    \/ Next
    \/ \E s \in Slots : ProcessAgain(s)

\* The callers of Spec, who may also hand an activity to process a second time.
SpecAgain == Init /\ [][NextAgain]_vars

\* Two callers at once, each with a Create, a Delete or an Update of the
\* actor's own notes.
TypesTwo == {<<"Create">>, <<"Delete">>, <<"Update">>}

ObjectListsTwo ==
    {<<Note(Note1Id, "hi", 1)>>,
     <<Note(Note1Id, "hi", 1), Note(Note2Id, "hi", 2)>>}

InitTwo ==
    /\ memory = <<>>
    /\ clock = 0
    /\ proc = [s \in Slots |-> Idle]
    /\ RulesLoaded

BeginTwo(s) ==
    /\ proc[s].pc = "idle"
    /\ clock < MaxClock
    /\ clock' = clock + 1
    /\ \E type \in TypesTwo, object \in ObjectListsTwo, token \in Tokens :
          LET fresh == [i \in 1..Len(object) |->
                            [object[i] EXCEPT !.ref = <<clock', i>>]]
              given == Activity(type, <<ActorA>>, fresh, <<>>, <<>>)
          IN  proc' = [proc EXCEPT ![s] =
                  [Idle EXCEPT !.pc = "audit",
                               !.act = [given EXCEPT !.id = OutboxPrefix \o token],
                               !.act0 = given,
                               !.memory0 = memory]]
    /\ UNCHANGED memory
    /\ UNCHANGED ruleVars

NextTwo ==
    \/ LoadMemory
    \/ \E s \in Slots : BeginTwo(s)
    \/ \E s \in Slots : Audit(s)
    \/ \E s \in Slots : CreateObjects(s)
    \/ \E s \in Slots : DeleteObjects(s)
    \/ \E s \in Slots : DeleteDereference(s)
    \/ \E s \in Slots : DeleteTombstone(s)
    \/ \E s \in Slots : UpdateObjects(s)
    \/ \E s \in Slots : AddToCollection(s)
    \/ \E s \in Slots : RemoveFromCollection(s)
    \/ \E s \in Slots : MoveBetweenCollections(s)
    \/ \E s \in Slots : MoveOrRemoveFromCanonicalCollection(s)
    \/ \E s \in Slots : Finalize(s)
    \/ \E s \in Slots : Deliver(s)
    \/ \E s \in Slots : Terminate(s)
    \/ \E s \in Slots : Finish(s)

SpecTwo == InitTwo /\ [][NextTwo]_vars

\* The rules a caller registers: one without a target, one whose target is an
\* empty array, one whose target holds an empty object, one for Deletes.
RuleConfigs ==
    {RuleConfig("a", "no target", 20, FALSE, <<>>),
     RuleConfig("b", "empty array", 10, TRUE, <<>>),
     RuleConfig("c", "empty object", 10, TRUE, <<JObject(<<>>, <<>>)>>),
     RuleConfig("d", "deletes", 20, TRUE, <<Typed("Delete")>>)}

\* The activities applyRules is called with.
RuleActivities ==
    {ActivityValue(Activity(type, <<ActorA>>, <<Note(Note1Id, "hi", 1)>>,
                            <<>>, <<>>)) : type \in Types}
        \cup {JObject(<<>>, <<>>)}

InitRules ==
    /\ memory = <<>>
    /\ clock = 0
    /\ proc = [s \in Slots |-> ProcAt("off")]
    /\ RulesLoaded

\* rule(r) is called.
Rule ==
    /\ Len(rules) < MaxRules
    /\ \E r \in RuleConfigs : rules' = rule(rules, r)
    /\ UNCHANGED <<memory, clock, proc, console, tmpl, value, answer, iter,
                  schema, thrown>>

\* applyRules(activity) is called.
ApplyRules ==
    /\ \E activity \in RuleActivities : console' = applyRules(rules, activity)
    /\ UNCHANGED <<memory, clock, proc, rules, tmpl, value, answer, iter,
                  schema, thrown>>

\* chainRules(activity) is called by a caller who takes the rules one by one:
\* nothing of its body runs before the first next().
ChainRules ==
    /\ iter.state \in {"none", "returned", "thrown"}
    /\ \E activity \in RuleActivities :
          iter' = Iter(activity, 1, <<>>, "suspended", Len(rules))
    /\ UNCHANGED <<memory, clock, proc, rules, console, tmpl, value, answer,
                  schema, thrown>>

\* The caller asks the generator for the next rule.
ChainRulesNext ==
    /\ iter.state = "suspended"
    /\ iter' = IterNext(rules, iter)
    /\ UNCHANGED <<memory, clock, proc, rules, console, tmpl, value, answer,
                  schema, thrown>>

NextIterate ==
    \/ Rule
    \/ ChainRules
    \/ ChainRulesNext

\* The registry and a caller of chainRules who may register rules between
\* two rules the generator yields.
SpecIterate == InitRules /\ [][NextIterate]_vars

NextRules ==
    \/ Rule
    \/ ApplyRules

SpecRules == InitRules /\ [][NextRules]_vars

\* The templates and the values match is asked about: strings, arrays and
\* objects over strings, and arrays and objects of those.
Scalars == {"x", "y"}

KeyLists == {<<>>, <<"a">>, <<"b">>, <<"a", "b">>, <<"b", "a">>}

ListsOf(S, n) == UNION {{JList(items) : items \in [1..k -> S]} : k \in 0..n}

ObjectsOf(S) ==
    UNION {{JObject(keys, vals) : vals \in [1..Len(keys) -> S]} : keys \in KeyLists}

Inner ==
    {JString(s) : s \in Scalars}
        \cup {JList(<<>>), JList(<<JString("x")>>)}
        \cup {JObject(<<>>, <<>>), JObject(<<"a">>, <<JString("x")>>),
              JObject(<<"b">>, <<JString("y")>>)}

\* Arrays with an object two deep among their items, in either order.
Deeper ==
    LET deep == JObject(<<"a">>, <<JObject(<<"a">>, <<JString("x")>>)>>)
        empty == JObject(<<>>, <<>>)
    IN  {JList(<<deep, JString("x")>>), JList(<<JString("x"), deep>>),
         JList(<<empty, deep>>), JList(<<deep, empty>>)}

Templates ==
    {JString(s) : s \in Scalars} \cup ListsOf(Inner, MaxLen)
        \cup ObjectsOf(Inner) \cup Deeper

ActivityValues == Templates

InitMatch ==
    /\ memory = <<>>
    /\ clock = 0
    /\ proc = [s \in Slots |-> ProcAt("off")]
    /\ rules = BuiltinRules
    /\ console = NoConsole
    /\ tmpl \in Templates
    /\ value \in ActivityValues
    /\ answer = "none"
    /\ iter = NoIter
    /\ schema = JUndefined
    /\ thrown = NotCalled

\* A match that takes the items it has looked at off the value's array.
MatchConsuming ==
    /\ answer = "none"
    /\ answer' = match(tmpl, value)
    /\ value' = IF value.kind = "list" THEN JList(<<>>) ELSE value
    /\ UNCHANGED <<memory, clock, proc, rules, console, tmpl, iter,
                  schema, thrown>>

\* match(tmpl, value) is called.
Match ==
    /\ answer = "none"
    /\ answer' = match(tmpl, value)
    /\ UNCHANGED <<memory, clock, proc, rules, console, tmpl, value, iter,
                  schema, thrown>>

NextMatch == Match

SpecMatch == InitMatch /\ [][NextMatch]_vars

(***************************************************************************)
(* Properties                                                              *)
(***************************************************************************)
Done(s) == proc[s].pc = "done"

Failed(s) == proc[s].error # NoError

\* objId lies under actorId: it is actorId, a slash, and a rest.
Under(objId, actorId) ==
    /\ Len(objId) > Len(actorId)
    /\ \A k \in 1..Len(actorId) : objId[k] = actorId[k]
    /\ objId[Len(actorId) + 1] = "/"

Identified(n) == n.kind = "object" /\ n.id # NoId

\* The ProcessingError entries of a result.
Errors(result) == SelectSeq(result, LAMBDA e : e.kind = "ProcessingError")

\* An entry that names the id in one of its messages.
References(e, id) ==
    \E k \in 1..Len(e.summary) : e.summary[k].actor = id \/ e.summary[k].obj = id

\* One actor with an id, and at least one object, each with an id.
WellFormed(act) ==
    /\ Len(act.actor) = 1 /\ Identified(act.actor[1])
    /\ Len(act.object) >= 1
    /\ \A i \in 1..Len(act.object) : Identified(act.object[i])

\* C1: whenever a processor throws during process, the activity ends as a
\* Tombstone whose result holds exactly one Error entry, and that entry
\* references the id of the activity; the activity is not in the store.
C1_FailureContainment ==
    \A s \in Slots :
        Done(s) /\ Failed(s) =>
            LET act == proc[s].act
            IN  /\ act.type = <<"Tombstone">>
                /\ Len(Errors(act.result)) = 1
                /\ References(Errors(act.result)[1], act.id)
                /\ act.id \notin DOMAIN memory

\* C2: process raises only in strict mode (raise), only the error it caught,
\* and only after the activity was made a Tombstone; otherwise every failure
\* ends with the activity returned as a Tombstone.
C2_NeverRaisesUnlessStrict ==
    \A s \in Slots :
        /\ proc[s].outcome = "raised" =>
               /\ proc[s].raise /\ Failed(s) /\ Done(s)
               /\ proc[s].act.type = <<"Tombstone">>
               /\ proc[s].act.deleted # NoTime
        /\ Done(s) /\ ~proc[s].raise => proc[s].outcome = "returned"
        /\ Done(s) /\ Failed(s) /\ ~proc[s].raise =>
               /\ proc[s].act.type = <<"Tombstone">>
               /\ proc[s].act.deleted # NoTime

C2_Witness ==
    \E s \in Slots :
        Done(s) /\ Failed(s) /\ ~proc[s].raise /\ proc[s].outcome = "returned"

\* C3: a failed activity is a Tombstone: type is [Tombstone], formerType is
\* the type it had before the failure, deleted is a timestamp.
C3_TombstoneFormerType ==
    \A s \in Slots :
        Done(s) /\ Failed(s) =>
            /\ proc[s].act.type = <<"Tombstone">>
            /\ proc[s].act.formerType = proc[s].act0.type
            /\ proc[s].act.deleted # NoTime

Processed(s) ==
    /\ proc[s].act.processed # NoTime
    /\ proc[s].act.type = proc[s].act0.type
    /\ proc[s].act.deleted = NoTime

TombstonedActivity(s) ==
    /\ proc[s].act.type = <<"Tombstone">>
    /\ proc[s].act.deleted # NoTime
    /\ proc[s].act.processed = NoTime

C5_CreateOutsideScopeFails ==
    \A s \in Slots :
        LET act0 == proc[s].act0
        IN  (/\ Done(s)
             /\ Includes(act0.type, "Create")
             /\ WellFormed(act0)
             /\ Len(act0.object) = 1
             /\ ~Under(act0.object[1].id, act0.actor[1].id))
            =>  /\ proc[s].act.type = <<"Tombstone">>
                /\ Errors(proc[s].act.result) =
                       <<ProcessingError(<<Msg(" cannot write to ",
                             act0.actor[1].id, act0.object[1].id)>>)>>
                /\ MemGet(memory, act0.object[1].id) =
                       MemGet(proc[s].memory0, act0.object[1].id)

C5_Witness ==
    \E s \in Slots :
        /\ Done(s)
        /\ Includes(proc[s].act0.type, "Create")
        /\ WellFormed(proc[s].act0)
        /\ Len(proc[s].act0.object) = 1
        /\ ~Under(proc[s].act0.object[1].id, proc[s].act0.actor[1].id)
        /\ proc[s].act.type = <<"Tombstone">>
        /\ proc[s].act0.result # <<>>

\* C6: a Create by actor A of objects under the scope of A keeps its type
\* [Create], and every object id then dereferences to the object as it was
\* submitted, attributed to A.
C6_CreateStoresAttributed ==
    \A s \in Slots :
        LET act0 == proc[s].act0
        IN  (/\ Done(s)
             /\ act0.type = <<"Create">>
             /\ WellFormed(act0)
             /\ \A i \in 1..Len(act0.object) :
                    Under(act0.object[i].id, act0.actor[1].id))
            =>  /\ proc[s].act.type = <<"Create">>
                /\ proc[s].act.processed # NoTime
                /\ \A i \in 1..Len(act0.object) :
                     \E j \in 1..Len(act0.object) :
                        /\ act0.object[j].id = act0.object[i].id
                        /\ dereference(memory, act0.object[i]) =
                               [act0.object[j] EXCEPT !.attributedTo = act0.actor]

C6_Witness ==
    \E s \in Slots :
        /\ Done(s)
        /\ proc[s].act0.type = <<"Create">>
        /\ WellFormed(proc[s].act0)
        /\ Len(proc[s].act0.object) = 2
        /\ \A i \in 1..2 :
               Under(proc[s].act0.object[i].id, proc[s].act0.actor[1].id)
        /\ dereference(memory, proc[s].act0.object[2]).attributedTo = <<ActorA>>

\* C7: when the actor of an activity lacks write access to one of the objects
\* it names, nothing is stored or changed and the activity ends as a Tombstone.
C7_DeniedWriteFailsFast ==
    \A s \in Slots :
        LET act0 == proc[s].act0
        IN  (/\ Done(s)
             /\ WellFormed(act0)
             /\ \E i \in 1..Len(act0.object) :
                    ~Under(act0.object[i].id, act0.actor[1].id))
            =>  /\ proc[s].act.type = <<"Tombstone">>
                /\ memory = proc[s].memory0

AttributedTo(n, actorId) ==
    \E i \in 1..Len(n.attributedTo) : uri(n.attributedTo[i]) = actorId

\* C8: canWrite(object, actor) holds exactly when the actor is in the
\* attributedTo of the object or of an object above it (no group exists here).
C8_CanWriteIffAttributed ==
    \A k \in DOMAIN memory, a \in {ActorAId, ActorBId} :
        canWrite(k, a) <=>
            \/ AttributedTo(memory[k], a)
            \/ \E up \in DOMAIN memory : Under(k, up) /\ AttributedTo(memory[up], a)

\* The collection an object belongs to by its id: the id without its last
\* segment.
CanonicalCollection(id) ==
    LET k == CHOOSE k \in 1..Len(id) :
                 id[k] = "/" /\ \A j \in (k + 1)..Len(id) : id[j] # "/"
    IN  SubSeq(id, 1, k - 1)

\* C9: a Remove or a Move of an object out of its canonical collection always
\* fails: the activity ends as a Tombstone and nothing changes.
C9_CanonicalCollectionKept ==
    \A s \in Slots :
        LET act0 == proc[s].act0
        IN  (/\ Done(s)
             /\ Includes(act0.type, "Remove") \/ Includes(act0.type, "Move")
             /\ \E i \in 1..Len(act0.object), c \in 1..Len(act0.origin) :
                    /\ Identified(act0.object[i])
                    /\ uri(act0.origin[c]) = CanonicalCollection(act0.object[i].id))
            =>  /\ proc[s].act.type = <<"Tombstone">>
                /\ memory = proc[s].memory0

\* C10: after a Delete by an actor who may write the objects, every object id
\* dereferences to a Tombstone whose formerType is the type it had before.
C10_DeleteMakesTombstone ==
    \A s \in Slots :
        LET act0 == proc[s].act0
        IN  (/\ Done(s)
             /\ act0.type = <<"Delete">>
             /\ WellFormed(act0)
             /\ \A i \in 1..Len(act0.object) :
                    /\ Under(act0.object[i].id, act0.actor[1].id)
                    /\ dereference(proc[s].memory0, act0.object[i]).type
                           # <<"Tombstone">>)
            =>  \A i \in 1..Len(act0.object) :
                    LET before == dereference(proc[s].memory0, act0.object[i])
                        after == dereference(memory, act0.object[i])
                    IN  /\ after.kind = "object"
                        /\ after.type = <<"Tombstone">>
                        /\ after.formerType =
                               IF before.kind = "object" THEN before.type
                               ELSE act0.object[i].type
                        /\ after.deleted # NoTime

\* C11: a Delete by an actor who may write, on objects that are all stored as
\* Tombstones already, ends Processed and leaves the store as it was: every
\* stored Tombstone keeps its formerType and its deleted time.
C11_DeleteOfTombstoneNoOp ==
    \A s \in Slots :
        (/\ Done(s)
         /\ proc[s].act0.type = <<"Delete">>
         /\ WellFormed(proc[s].act0)
         /\ \A i \in 1..Len(proc[s].act0.object) :
               /\ \A j \in 1..Len(proc[s].act0.actor) :
                     Under(proc[s].act0.object[i].id, proc[s].act0.actor[j].id)
               /\ Includes(dereference(proc[s].memory0, proc[s].act0.object[i]).type,
                           "Tombstone"))
        => /\ ~Failed(s)
           /\ Processed(s)
           /\ Errors(proc[s].act.result) = <<>>
           /\ memory = proc[s].memory0

\* A Delete of a stored Tombstone has returned.
C11_Witness ==
    \E s \in Slots :
        /\ Done(s)
        /\ proc[s].act0.type = <<"Delete">>
        /\ proc[s].act0.actor = <<ActorA>>
        /\ Len(proc[s].act0.object) = 1
        /\ proc[s].act0.object[1].id = Note1Id
        /\ dereference(proc[s].memory0, proc[s].act0.object[1]).type = <<"Tombstone">>
        /\ dereference(proc[s].memory0, proc[s].act0.object[1]).formerType = <<"Note">>
        /\ Processed(s)

C13_UpdateReplaces ==
    \A s \in Slots :
        (/\ Done(s)
         /\ proc[s].act0.type = <<"Update">>
         /\ WellFormed(proc[s].act0)
         /\ \A i \in 1..Len(proc[s].act0.object) :
               Under(proc[s].act0.object[i].id, proc[s].act0.actor[1].id))
        => /\ ~Failed(s)
           /\ \A i \in 1..Len(proc[s].act0.object) :
                 LET given == proc[s].act0.object[i]
                     stored == dereference(memory, given)
                 IN  /\ stored.kind = "object"
                     /\ stored.type = given.type
                     /\ stored.content = given.content

\* C15: when the k-th processor throws, execute has called the first k
\* processors and no other, k - 1 of them returned, nothing was appended to
\* the result but the error, the activity is a Tombstone, and what the call
\* had stored before the throw is still stored: the objects delete_objects
\* had made Tombstones before it threw are Tombstones in the store.
C15_AbortKeepsMutations ==
    \A s \in Slots :
        Done(s) /\ Failed(s) =>
            LET k == Len(proc[s].started)
            IN  /\ k >= 1
                /\ proc[s].started = SubSeq(processors, 1, k)
                /\ proc[s].ended = k - 1
                /\ Len(proc[s].act.result) = Len(proc[s].act0.result) + 1
                /\ TombstonedActivity(s)
                /\ proc[s].started[k] = "delete_objects" =>
                      \A j \in 1..(proc[s].i - 1) :
                          Includes(dereference(memory, proc[s].objects[j]).type,
                                   "Tombstone")

\* A Delete of two objects threw 'not found' on the second after it had made
\* the first, a stored Note, a Tombstone.
C15_Witness ==
    \E s \in Slots :
        /\ Done(s) /\ Failed(s)
        /\ proc[s].started = <<"create_objects", "delete_objects">>
        /\ proc[s].i = 2
        /\ proc[s].error = Error("not found")
        /\ proc[s].memory0[Note1Id].type = <<"Note">>
        /\ memory[Note1Id].type = <<"Tombstone">>
        /\ proc[s].act.type = <<"Tombstone">>

\* The processor a call is inside of, waiting: only delete_objects waits
\* between steps.
Suspended(s) == proc[s].pc \in {"delete_dereference", "delete_tombstone"}

NoDuplicates(seq) ==
    \A i, j \in 1..Len(seq) : seq[i] = seq[j] => i = j

\* C16: in every interleaving of two calls of process, each call has called
\* no processor twice, has at most one processor that was called and has not
\* returned, and while a processor waits for its I/O it is the last one the
\* call has called: the next one is not called before it returns.
C16_OneHandlerAtATime ==
    \A s \in Slots :
        /\ NoDuplicates(proc[s].started)
        /\ proc[s].ended <= Len(proc[s].started)
        /\ Len(proc[s].started) <= proc[s].ended + 1
        /\ Suspended(s) =>
              /\ Len(proc[s].started) = proc[s].ended + 1
              /\ proc[s].started[Len(proc[s].started)] = "delete_objects"
        /\ proc[s].pc \in {"finalize", "deliver"} =>
              /\ Len(proc[s].started) = Len(processors)
              /\ proc[s].ended = Len(processors)

\* Two calls are inside delete_objects at once: the second has gone round its
\* loop while the first waits in its own.
C16_Witness ==
    /\ proc[1].pc = "delete_tombstone"
    /\ proc[1].i = 1
    /\ proc[2].pc = "delete_dereference"
    /\ proc[2].i = 2

\* The rule that wrote a line of the console.
RuleOf(summary) ==
    rules[CHOOSE i \in 1..Len(rules) : rules[i].summary = summary]

\* The order of the identifiers of the registered rules.
IdBefore(x, y) ==
    LET ids == <<"a", "b", "c", "d">>
        at(z) == CHOOSE i \in 1..Len(ids) : ids[i] = z
    IN  at(x) <= at(y)

\* C14: the rules applyRules ran are in the order of their priorities,
\* lowest first, and of their identifiers where the priorities are equal,
\* whatever the order they were registered in.
C14_PriorityOrder ==
    \A i, j \in 1..Len(console.lines) :
        LET p == RuleOf(console.lines[i])
            q == RuleOf(console.lines[j])
        IN  (i < j /\ p.priority # NoPriority /\ q.priority # NoPriority)
            => \/ p.priority < q.priority
               \/ p.priority = q.priority /\ IdBefore(p.id, q.id)

\* C17: when process has run an activity, the rules whose handlers were
\* run on it are the registered rules whose template matches it.
C17_MatchingRulesRun ==
    \A s \in Slots :
        Done(s) /\ ~Failed(s) =>
            \A i \in 1..Len(rules) :
                yields(rules[i], ActivityValue(proc[s].act0)) = "true"
                <=> /\ console.activity = ActivityValue(proc[s].act0)
                    /\ Includes(console.lines, rules[i].summary)

\* The template names a property, at some depth, that the value lacks.
RECURSIVE Missing(_, _)
Missing(t, v) ==
    /\ t.kind = "object"
    /\ \E i \in 1..Len(t.keys) :
          \/ ~HasKey(v, t.keys[i])
          \/ Missing(t.items[i], Property(v, t.keys[i]))

\* C18: when the template requires a field the value lacks, match answers
\* false, and it does not throw.
C18_MissingFieldIsFalse ==
    (answer # "none" /\ Missing(tmpl, value)) => answer = "false"

\* A rule without a target, or with a target that holds an empty object.
CatchAll(r) ==
    \/ ~r.hasTarget
    \/ \E i \in 1..Len(r.target) : r.target[i] = JObject(<<>>, <<>>)

\* A rule whose target is an empty array.
EmptyTarget(r) == r.hasTarget /\ r.target = <<>>

\* C19 as stated: applyRules runs every rule that has no target, an empty
\* object for a target, or an empty array for a target, on every activity.
C19_EmptyTemplateMatchesAll ==
    console.activity # JUndefined =>
        \A i \in 1..console.seen :
            (CatchAll(rules[i]) \/ EmptyTarget(rules[i]))
            => Includes(console.lines, rules[i].summary)

\* C19, amended: applyRules runs every rule that has no target or an empty
\* object for a target, on every activity, and it runs a rule whose target
\* is an empty array on none.
C19_CatchAllRules ==
    console.activity # JUndefined =>
        \A i \in 1..console.seen :
            /\ CatchAll(rules[i]) => Includes(console.lines, rules[i].summary)
            /\ EmptyTarget(rules[i]) => ~Includes(console.lines, rules[i].summary)

\* applyRules went through a rule of each kind: it ran the one without a
\* target and the one with the empty object, and not the one with the empty
\* array.
C19_Witness ==
    /\ console.activity # JUndefined
    /\ console.seen = MaxRules
    /\ \E i, j, k \in 1..console.seen :
          /\ ~rules[i].hasTarget
          /\ rules[j].hasTarget /\ rules[j].target = <<JObject(<<>>, <<>>)>>
          /\ EmptyTarget(rules[k])
          /\ Includes(console.lines, rules[i].summary)
          /\ Includes(console.lines, rules[j].summary)
          /\ ~Includes(console.lines, rules[k].summary)

\* The template matches the value, as a constraint on a part of it: a string
\* an equal string, an object a value that has each of its keys with a
\* matching value, an array a value one of whose items one of its items
\* matches.
RECURSIVE Matches(_, _)
Matches(t, v) ==
    IF t.kind = "string" THEN v.kind = "string" /\ v.str = t.str
    ELSE IF t.kind = "object"
    THEN \A i \in 1..Len(t.keys) :
            /\ HasKey(v, t.keys[i])
            /\ Matches(t.items[i], Property(v, t.keys[i]))
    ELSE \E i \in 1..Len(chainValues(t)), j \in 1..Len(chainValues(v)) :
            Matches(chainValues(t)[i], chainValues(v)[j])

\* C20: match answers true for an object template exactly when the value
\* has every key of the template with a value that matches, whatever other
\* keys the value has, and for a string template exactly when the value is
\* the same string.
C20_ObjectTemplateIsSubset ==
    (answer # "none" /\ tmpl.kind \in {"object", "string"})
    => (answer = "true" <=> Matches(tmpl, value))

\* The elements of a value: its items, or the value itself when it is no
\* array.
Elements(v) == IF v.kind = "list" THEN v.items ELSE <<v>>

\* C21: match answers true for an array template exactly when one of the
\* elements of the template matches one of the elements of the value, a
\* value that is no array counting as its only element.
C21_ListTemplateIsExistential ==
    (answer # "none" /\ tmpl.kind = "list")
    => (answer = "true"
        <=> \E i \in 1..Len(tmpl.items), j \in 1..Len(Elements(value)) :
                match(tmpl.items[i], Elements(value)[j]) = "true")

\* C22: a step in which match answers, or in which applyRules has gone
\* through the rules with chainRules, leaves the template, the value, the
\* registry and the store as they were.
C22_MatchingHasNoEffect ==
    [][(answer' # answer \/ console' # console)
       => /\ tmpl' = tmpl
          /\ value' = value
          /\ rules' = rules
          /\ memory' = memory]_vars

\* match has answered for an array template and an array value.
C22_Witness ==
    /\ answer = "true"
    /\ tmpl.kind = "list"
    /\ value.kind = "list"
    /\ Len(value.items) = MaxLen

\* C23: the registry holds at most one rule for an identifier, and applyRules
\* runs no rule twice.
C23_OneEntryPerIdentifier ==
    /\ \A i, j \in 1..Len(rules) :
          (rules[i].id # "" /\ rules[i].id = rules[j].id) => i = j
    /\ NoDuplicates(console.lines)

\* C24: the rules a generator of chainRules yields are rules that were in
\* the registry when chainRules was called.
C24_DispatchOnSnapshot ==
    \A k \in 1..Len(iter.yielded) : iter.yielded[k] <= iter.size

\* A call of process has taken the activity in.
Accepted(s) == proc[s].pc \notin {"idle", "off"}

\* C25: an activity that process has taken in has a type, at least one
\* actor, each with an id, and an id that lies under the id of its actor.
C25_AcceptedIsValidAndScoped ==
    \A s \in Slots :
        Accepted(s) =>
            LET act == proc[s].act
            IN  /\ act.type # <<>>
                /\ Len(act.actor) >= 1
                /\ \A j \in 1..Len(act.actor) :
                      /\ Identified(act.actor[j])
                      /\ Under(act.id, act.actor[j].id)

UsersPrefix == <<"/", "u", "s", "e", "r", "s", "/">>

\* id is prefix, the id of the actor without its leading slash, the outbox
\* and a token.
GeneratedFor(id, actorId) ==
    \E token \in TokensAgain :
        id = UsersPrefix \o Tail(actorId) \o OutboxPrefix \o token

\* C26: an activity that came to process with an id has that id, and one
\* that came without has an id /users/<actor-id>/outbox/<token>.
C26_IdGeneratedOnlyWhenAbsent ==
    \A s \in Slots :
        Accepted(s) =>
            /\ proc[s].act0.id # NoId => proc[s].act.id = proc[s].act0.id
            /\ (proc[s].act0.id = NoId /\ WellFormed(proc[s].act0))
                 => GeneratedFor(proc[s].act.id, proc[s].act0.actor[1].id)

\* The orders the elements of a list can be put in.
Orders(n) == {f \in [1..n -> 1..n] : \A i, j \in 1..n : f[i] = f[j] => i = j}

Reordered(v) ==
    IF v.kind = "list"
    THEN {[v EXCEPT !.items = [i \in 1..Len(v.items) |-> v.items[f[i]]]] :
             f \in Orders(Len(v.items))}
    ELSE {v}

\* v with the elements of its list, or of the lists its properties hold, in
\* any order.
Reorderings(v) ==
    IF v.kind = "object"
    THEN {[v EXCEPT !.items = g] :
             g \in {h \in [1..Len(v.items) ->
                               UNION {Reordered(v.items[i]) : i \in 1..Len(v.items)}] :
                        \A i \in 1..Len(v.items) : h[i] \in Reordered(v.items[i])}}
    ELSE Reordered(v)

\* C28: the answer of match is the same for the template and the value with
\* the elements of their lists in any other order.
C28_OrderDoesNotMatter ==
    answer # "none"
    => \A t \in Reorderings(tmpl), v \in Reorderings(value) : match(t, v) = answer

(***************************************************************************)
(* gatherWriteableObjects, storeObjects and storeObject, called on their   *)
(* own                                                                     *)
(***************************************************************************)
\* An actor whose id lies under the id of ActorA, and an object under both.
ActorGId == <<"/", "a", "/", "g">>
NoteGId == <<"/", "a", "/", "g", "/", "1">>
ActorG == Node(ActorGId, <<"Group">>, "")

\* The actors and the objects gatherWriteableObjects is called with.
GatherActors ==
    {<<>>, <<ActorA>>, <<ActorNoId>>, <<ActorA, ActorG>>, <<ActorG, ActorA>>,
     <<ActorA, ActorB>>, <<ActorB, ActorA>>, <<ActorA, ActorNoId>>,
     <<ActorNoId, ActorA>>, <<ActorB, ActorNoId>>}

GatherObjects ==
    {<<>>,
     <<Note(NoteGId, "hi", 1)>>,
     <<Note(Note1Id, "hi", 1)>>,
     <<Note(NoteGId, "hi", 1), Note(Note1Id, "hi", 2)>>,
     <<Note(NoteGId, "hi", 1), Node(NoId, <<"Note">>, "hi")>>,
     <<Node(NoId, <<"Note">>, "hi")>>}

\* The batches storeObjects is called with: with and without an object
\* that has no id, first or last, and with one id twice.
Batches ==
    {<<>>,
     <<Note(Note1Id, "yo", 1)>>,
     <<Note(Note2Id, "hi", 1), Note(NoteGId, "hi", 2)>>,
     <<Note(Note2Id, "hi", 1), Note(Note2Id, "yo", 2)>>,
     <<Note(Note2Id, "hi", 1), Node(NoId, <<"Note">>, "hi")>>,
     <<Node(NoId, <<"Note">>, "hi"), Note(Note2Id, "hi", 2)>>,
     <<Node(NoId, <<"Note">>, "hi")>>}

InitStore ==
    /\ memory \in MemoryItems
    /\ clock = 0
    /\ proc = [s \in Slots |-> IF s = 1 THEN Idle ELSE ProcAt("off")]
    /\ RulesLoaded

\* The call with these objects and actors has ended with this error.
Called(pc, objects, actors, error, results) ==
    [Idle EXCEPT !.pc = pc,
                 !.act = Activity(<<>>, actors, objects, <<>>, <<>>),
                 !.error = error,
                 !.objects = results,
                 !.memory0 = memory]

\* gatherWriteableObjects(objects, actors)
GatherWriteableObjects(s) ==
    /\ proc[s].pc = "idle"
    /\ \E objects \in GatherObjects, actors \in GatherActors :
          LET g == gatherWriteableObjects(objects, actors)
          IN  proc' = [proc EXCEPT ![s] =
                  Called("gathered", objects, actors, g.error, g.results)]
    /\ UNCHANGED <<memory, clock>>
    /\ UNCHANGED ruleVars

\* storeObjects(objects)
StoreObjects(s) ==
    /\ proc[s].pc = "idle"
    /\ \E objects \in Batches :
          LET st == storeObjects(memory, objects)
          IN  /\ memory' = st.memory
              /\ proc' = [proc EXCEPT ![s] =
                     Called("stored", objects, <<>>, st.error, <<>>)]
    /\ UNCHANGED clock
    /\ UNCHANGED ruleVars

\* storeObject(obj)
StoreObject(s) ==
    /\ proc[s].pc = "idle"
    /\ \E objects \in Batches :
          /\ Len(objects) = 1
          /\ LET st == storeObject(memory, objects[1])
             IN  /\ memory' = st.memory
                 /\ proc' = [proc EXCEPT ![s] =
                        Called("stored", objects, <<>>, st.error, <<>>)]
    /\ UNCHANGED clock
    /\ UNCHANGED ruleVars

\* The caller has the answer and calls again.
CallAgain(s) ==
    /\ proc[s].pc \in {"gathered", "stored"}
    /\ proc' = [proc EXCEPT ![s] = Idle]
    /\ UNCHANGED <<memory, clock>>
    /\ UNCHANGED ruleVars

NextStore ==
    \/ \E s \in Slots : GatherWriteableObjects(s)
    \/ \E s \in Slots : StoreObjects(s)
    \/ \E s \in Slots : StoreObject(s)
    \/ \E s \in Slots : CallAgain(s)

SpecStore == InitStore /\ [][NextStore]_vars

\* Some object or actor has no id, or some actor cannot write some object.
Refusable(objects, actors) ==
    \/ \E i \in 1..Len(objects) : ~Identified(objects[i])
    \/ \E j \in 1..Len(actors) : ~Identified(actors[j])
    \/ \E i \in 1..Len(objects), j \in 1..Len(actors) :
          ~Under(objects[i].id, actors[j].id)

\* Every object has an id, every actor has an id and can write every object.
AllCanWriteAll(objects, actors) ==
    /\ \A i \in 1..Len(objects) : Identified(objects[i])
    /\ \A j \in 1..Len(actors) : Identified(actors[j])
    /\ \A i \in 1..Len(objects), j \in 1..Len(actors) :
          Under(objects[i].id, actors[j].id)

\* C29: gatherWriteableObjects returns objects only if every actor can
\* write every one of them, and it throws and returns no object if some
\* object or actor has no id or some actor cannot write some object.
C29_EveryActorMustWrite ==
    \A s \in Slots :
        proc[s].pc = "gathered" =>
            LET objects == proc[s].act.object
                actors == proc[s].act.actor
            IN  /\ ~Failed(s) => AllCanWriteAll(objects, actors)
                /\ Refusable(objects, actors)
                     => Failed(s) /\ proc[s].objects = <<>>

\* C29, amended: as above, but an actor without id makes it throw only if
\* there is an object to write; without objects it returns the empty list.
C29_EveryActorMustWriteEachObject ==
    \A s \in Slots :
        proc[s].pc = "gathered" =>
            LET objects == proc[s].act.object
                actors == proc[s].act.actor
            IN  /\ (~Failed(s) /\ objects # <<>>)
                     => AllCanWriteAll(objects, actors)
                /\ ~Failed(s) => proc[s].objects = objects
                /\ (Refusable(objects, actors) /\ objects # <<>>)
                     => Failed(s) /\ proc[s].objects = <<>>
                /\ objects = <<>> => ~Failed(s)

\* Two actors, both may write, and the objects are returned.
C29_Witness ==
    \E s \in Slots :
        /\ proc[s].pc = "gathered"
        /\ Len(proc[s].act.actor) = 2
        /\ ~Failed(s)
        /\ Len(proc[s].objects) = 1

\* The last object of the batch with this id.
LastWith(objects, id) ==
    objects[CHOOSE i \in 1..Len(objects) :
                /\ objects[i].id = id
                /\ \A j \in (i + 1)..Len(objects) : objects[j].id # id]

\* C30: after storeObjects or storeObject, if an object of the batch has no id the call
\* has thrown 'object must have an id' and the store is as it was;
\* otherwise it has not thrown, every id of the batch holds the object of
\* the batch with that id (the last one, if there are two), and every
\* other key is as it was.
C30_StoreObjectsAllOrNothing ==
    \A s \in Slots :
        proc[s].pc = "stored" =>
            LET objects == proc[s].act.object
                ids == {objects[i].id : i \in 1..Len(objects)}
            IN  IF \E i \in 1..Len(objects) : ~Identified(objects[i])
                THEN /\ proc[s].error = Error("object must have an id")
                     /\ memory = proc[s].memory0
                ELSE /\ ~Failed(s)
                     /\ DOMAIN memory = (DOMAIN proc[s].memory0) \cup ids
                     /\ \A k \in DOMAIN memory :
                           memory[k] = IF k \in ids THEN LastWith(objects, k)
                                       ELSE proc[s].memory0[k]

\* A batch whose second object has no id has left the store as it was.
C30_Witness ==
    \E s \in Slots :
        /\ proc[s].pc = "stored"
        /\ Len(proc[s].act.object) = 2
        /\ Identified(proc[s].act.object[1])
        /\ ~Identified(proc[s].act.object[2])
        /\ Failed(s)
        /\ proc[s].act.object[1].id \notin DOMAIN memory

\* The call is a Delete that has returned, and every object it names was
\* stored, and not as a Tombstone, when the call began.
DeleteOfStored(s) ==
    /\ Done(s)
    /\ proc[s].act0.type = <<"Delete">>
    /\ \A i \in 1..Len(proc[s].act0.object) :
          LET o == dereference(proc[s].memory0, proc[s].act0.object[i])
          IN  o.kind = "object" /\ ~Includes(o.type, "Tombstone")

\* C31: two Deletes that both began while the object they name was stored
\* and not yet a Tombstone, interleaved in any way, both end Processed, and
\* each object is stored as a Tombstone whose formerType is the type it had
\* before.
C31_ConcurrentDeletesConvertOnce ==
    (/\ \A s \in Slots : DeleteOfStored(s)
     /\ \E i \in 1..Len(proc[1].act0.object), j \in 1..Len(proc[2].act0.object) :
           proc[1].act0.object[i].id = proc[2].act0.object[j].id)
    => \A s \in Slots :
          /\ ~Failed(s)
          /\ Processed(s)
          /\ \A i \in 1..Len(proc[s].act0.object) :
                LET o == dereference(memory, proc[s].act0.object[i])
                    o0 == dereference(proc[s].memory0, proc[s].act0.object[i])
                IN  /\ o.type = <<"Tombstone">>
                    /\ o.formerType = o0.type

\* Both Deletes of the stored note have returned.
C31_Witness ==
    /\ \A s \in Slots :
          /\ DeleteOfStored(s)
          /\ Len(proc[s].act0.object) = 1
          /\ proc[s].act0.object[1].id = Note1Id
    /\ dereference(memory, StringNode(Note1Id)).formerType = <<"Note">>

(***************************************************************************)
(* validate, called on its own                                             *)
(***************************************************************************)
\* An object with this type property.
OfType(type) == JObject(<<"type">>, <<type>>)

\* The types an object or a schema has: a string or an array of strings.
TypeValues ==
    {JString("Note"), JString(""), Strings(<<>>), Strings(<<"Note">>),
     Strings(<<"Create">>), Strings(<<"Create", "Note">>)}

\* What stands for one object: with a type, without, or no object at all.
Singles ==
    {OfType(t) : t \in TypeValues}
        \cup {JObject(<<>>, <<>>), JString("x"), JString(""), JUndefined, JNull}

ValidateValues == Singles \cup ListsOf(Singles, MaxLen)

Schemas == {OfType(t) : t \in TypeValues} \cup {JObject(<<>>, <<>>)}

InitValidate ==
    /\ memory = <<>>
    /\ clock = 0
    /\ proc = [s \in Slots |-> ProcAt("off")]
    /\ rules = BuiltinRules
    /\ console = NoConsole
    /\ tmpl = JUndefined
    /\ answer = "none"
    /\ iter = NoIter
    /\ value \in ValidateValues
    /\ schema \in Schemas
    /\ thrown = NotCalled

\* validate(value, schema) is called.
Validate ==
    /\ thrown = NotCalled
    /\ thrown' = validate(value, schema)
    /\ UNCHANGED <<memory, clock, proc, rules, console, tmpl, value, answer,
                   iter, schema>>

NextValidate == Validate

SpecValidate == InitValidate /\ [][NextValidate]_vars

\* The schema names a type.
TypeGiven(sch) == Truthy(Property(sch, "type"))

\* Some type of the schema is a type of the object.
SharesType(sch, v) ==
    \E a \in 1..Len(chainValues(Property(sch, "type"))),
       b \in 1..Len(chainValues(Property(v, "type"))) :
        chainValues(Property(sch, "type"))[a].str
            = chainValues(Property(v, "type"))[b].str

\* The object does not meet the schema: it is no object, or the schema names
\* a type and no type of the schema is one of the object's.
Fails(v, sch) ==
    \/ typeof(v) # "object"
    \/ TypeGiven(sch) /\ ~SharesType(sch, v)

\* The places of the array's items that do not meet the schema, in order.
RECURSIVE FailingPaths(_, _, _)
FailingPaths(items, sch, i) ==
    IF i > Len(items) THEN <<>>
    ELSE (IF Fails(items[i], sch) THEN <<ToString(i - 1)>> ELSE <<>>)
             \o FailingPaths(items, sch, i + 1)

Raised == thrown.cls = "ValidationError"

\* C32: validate raises ValidationError for an empty value; for an array
\* it raises iff some item does not meet the schema, with one item of the
\* error for each such item of the array, its index as path; for anything
\* else it raises iff the value does not meet the schema; and where it does
\* not raise it returns.
C32_ValidateEnforcesSchema ==
    thrown # NotCalled =>
        /\ thrown.cls \in {"ValidationError", "none"}
        /\ IF isEmpty(value) THEN Raised
           ELSE IF value.kind = "list"
           THEN /\ Raised <=> \E i \in 1..Len(value.items) :
                                  Fails(value.items[i], schema)
                /\ [k \in 1..Len(thrown.items) |-> thrown.items[k].path]
                      = FailingPaths(value.items, schema, 1)
           ELSE Raised <=> Fails(value, schema)

====
